---- MODULE Spec2Model ----
(***************************************************************************)
(* The Adan optimizer of src/neosr/optimizers/adan.py as a state machine:  *)
(* construction, the harness writing gradients, step(), restart_opt() and  *)
(* the state restore that ends in __setstate__.                            *)
(*                                                                         *)
(* Floating-point numbers are fixed-point integers in units of 1/Scale.    *)
(* Products and quotients round toward zero, so that negation commutes     *)
(* with every operation as it does in IEEE arithmetic.  +inf, -inf and NaN *)
(* are three integers outside the finite range.                            *)
(***************************************************************************)
EXTENDS Integers, Sequences, FiniteSets, TLC

\* ------------------------------------------------------------------ bounds

\* Units per 1.0 of the fixed-point numbers.
Scale == 1024
\* Elements of every parameter tensor.
NumEl == 2
\* Distinct sets of gradient values the harness may produce in one backward pass.
NumSamples == 1
\* step() calls in one run.
MaxCalls == 2

\* ------------------------------------------------------- float arithmetic

One == Scale
Huge == Scale * Scale * Scale
PosInf == Huge
NegInf == 0 - Huge
NaN == Huge + 1

Finite(x) == x > NegInf /\ x < PosInf
Abs(x) == IF x < 0 THEN 0 - x ELSE x
Sgn(x) == IF x < 0 THEN 0 - 1 ELSE IF x > 0 THEN 1 ELSE 0

\* n/d as a float literal.
Frac(n, d) == Sgn(n) * ((Abs(n) * Scale) \div d)

FNeg(a) == IF a = NaN THEN NaN ELSE 0 - a

FAdd(a, b) ==
    IF a = NaN \/ b = NaN THEN NaN
    ELSE IF Finite(a) /\ Finite(b) THEN a + b
    ELSE IF Finite(a) THEN b
    ELSE IF Finite(b) THEN a
    ELSE IF a = b THEN a
    ELSE NaN

FSub(a, b) == FAdd(a, FNeg(b))

FMul(a, b) ==
    IF a = NaN \/ b = NaN THEN NaN
    ELSE IF Finite(a) /\ Finite(b) THEN Sgn(a) * Sgn(b) * ((Abs(a) * Abs(b)) \div Scale)
    ELSE IF a = 0 \/ b = 0 THEN NaN
    ELSE Sgn(a) * Sgn(b) * PosInf

FDiv(a, b) ==
    IF a = NaN \/ b = NaN THEN NaN
    ELSE IF Finite(a) /\ Finite(b)
         THEN IF b = 0
              THEN IF a = 0 THEN NaN ELSE Sgn(a) * PosInf
              ELSE Sgn(a) * Sgn(b) * ((Abs(a) * Scale) \div Abs(b))
    ELSE IF Finite(a) THEN 0
    ELSE IF Finite(b) THEN (IF b < 0 THEN 0 - 1 ELSE 1) * a
    ELSE NaN

FMin(a, b) == IF a = NaN \/ b = NaN THEN NaN ELSE IF a < b THEN a ELSE b

RECURSIVE ISqrtBits(_, _, _)
\* Largest r with r*r <= n, found bit by bit from the bit b down.
ISqrtBits(n, r, b) ==
    IF b = 0 THEN r
    ELSE ISqrtBits(n, IF (r + b) * (r + b) <= n THEN r + b ELSE r, b \div 2)

\* sqrt of a finite float >= 0.
FSqrt(x) == ISqrtBits(x * Scale, 0, 16384)

RECURSIVE FPow(_, _)
\* b ** k for an integer k >= 0.
FPow(b, k) == IF k = 0 THEN One ELSE FMul(b, FPow(b, k - 1))

\* ----------------------------------------------------------------- tensors

Idx == 1..NumEl
\* A tensor or a list built element by element, as the tuple of its elements.
Tup(f) == f \o <<>>
\* p.grad is None
None == <<>>
\* torch.zeros_like(p)
Zeros == Tup([i \in Idx |-> 0])

RECURSIVE SumSeq(_)
SumSeq(s) == IF s = <<>> THEN 0 ELSE FAdd(Head(s), SumSeq(Tail(s)))

\* t.mul_(s)
TMulS(t, s) == Tup([i \in Idx |-> FMul(t[i], s)])
\* t.div_(s)
TDivS(t, s) == Tup([i \in Idx |-> FDiv(t[i], s)])
\* t.add_(s) for a scalar s
TAddS(t, s) == Tup([i \in Idx |-> FAdd(t[i], s)])
\* t.add_(u, alpha=alpha)
TAdd(t, u, alpha) == Tup([i \in Idx |-> FAdd(t[i], FMul(alpha, u[i]))])
\* t.addcmul_(a, b, value=value)
TAddcmul(t, a, b, value) == Tup([i \in Idx |-> FAdd(t[i], FMul(FMul(value, a[i]), b[i]))])
\* t.addcdiv_(a, b, value=value)
TAddcdiv(t, a, b, value) == Tup([i \in Idx |-> FAdd(t[i], FDiv(FMul(value, a[i]), b[i]))])
\* t.sqrt()
TSqrt(t) == Tup([i \in Idx |-> FSqrt(t[i])])
\* torch.mean(t)
TMean(t) == LET s == SumSeq(t) IN Sgn(s) * (Abs(s) \div NumEl)
\* t.pow(2).sum()
TSumSq(t) == SumSeq(Tup([i \in Idx |-> FMul(t[i], t[i])]))

\* torch._foreach_* : the same element-wise operation on every tensor of a list
ForeachMulS(ts, s) == Tup([k \in DOMAIN ts |-> TMulS(ts[k], s)])
ForeachDivS(ts, s) == Tup([k \in DOMAIN ts |-> TDivS(ts[k], s)])
ForeachAddS(ts, s) == Tup([k \in DOMAIN ts |-> TAddS(ts[k], s)])
ForeachAdd(ts, us, alpha) == Tup([k \in DOMAIN ts |-> TAdd(ts[k], us[k], alpha)])
\* _foreach_add_ with a list of 0-dim tensors: each is broadcast over its tensor
ForeachAddScalars(ts, ss, alpha) == Tup([k \in DOMAIN ts |-> TAddS(ts[k], FMul(alpha, ss[k]))])
ForeachAddcmul(ts, as, bs, value) == Tup([k \in DOMAIN ts |-> TAddcmul(ts[k], as[k], bs[k], value)])
ForeachAddcdiv(ts, as, bs, value) == Tup([k \in DOMAIN ts |-> TAddcdiv(ts[k], as[k], bs[k], value)])
ForeachSqrt(ts) == Tup([k \in DOMAIN ts |-> TSqrt(ts[k])])
ForeachZero(ts) == Tup([k \in DOMAIN ts |-> Zeros])

\* ----------------------------------------------------------------- kernels
\* A kernel mutates its tensors in place, statement by statement.  Each operator
\* below is one statement (or one short run of them): it takes the tensors as the
\* statements before it left them and returns them as it leaves them.  h holds the
\* scalars step() passes.

StepSizeDiff(h) == FDiv(FMul(h.lr, h.beta2), h.bias_correction2)
StepSize(h) == FDiv(h.lr, h.bias_correction1)

\* --- _single_tensor_adan, for the parameter of one loop iteration.  s.exp_avg is
\* the state tensor, s.exp_avg_local the tensor the local name exp_avg is bound to.

SingleClip(s, h) == [s EXCEPT !.grad = TMulS(@, h.clip_global_grad_norm)]

SingleDiff(s, h) == [s EXCEPT !.neg_pre_grad = TAdd(@, s.grad, One)]

SingleExpAvg(s, h) ==
    LET m == TAdd(TMulS(s.exp_avg, h.beta1), s.grad, One - h.beta1)
    IN [s EXCEPT !.exp_avg = m, !.exp_avg_local = m]

\* exp_avg = exp_avg - torch.mean(exp_avg): a new tensor bound to the local name;
\* the state tensor keeps its value.
SingleCentralize(s, h) ==
    IF h.mc THEN [s EXCEPT !.exp_avg_local = TAddS(s.exp_avg, FNeg(TMean(s.exp_avg)))]
            ELSE s

SingleExpAvgDiff(s, h) ==
    [s EXCEPT !.exp_avg_diff = TAdd(TMulS(@, h.beta2), s.neg_pre_grad, One - h.beta2)]

SingleBlend(s, h) == [s EXCEPT !.neg_pre_grad = TAdd(TMulS(@, h.beta2), s.grad, One)]

SingleExpAvgSq(s, h) ==
    [s EXCEPT !.exp_avg_sq =
        TAddcmul(TMulS(@, h.beta3), s.neg_pre_grad, s.neg_pre_grad, One - h.beta3)]

\* denom without the eps term.
MutSingleDenom(s, h) ==
    [s EXCEPT !.denom = TDivS(TSqrt(s.exp_avg_sq), h.bias_correction3_sqrt)]

SingleDenom(s, h) ==
    [s EXCEPT !.denom = TAddS(TDivS(TSqrt(s.exp_avg_sq), h.bias_correction3_sqrt), h.eps)]

\* The two decay orders exchanged.
MutSingleUpdate(s, h) ==
    IF ~ h.no_prox
    THEN [s EXCEPT !.param =
            TAddcdiv(TAddcdiv(TMulS(@, One - FMul(h.lr, h.weight_decay)),
                              s.exp_avg_local, s.denom, FNeg(StepSize(h))),
                     s.exp_avg_diff, s.denom, FNeg(StepSizeDiff(h)))]
    ELSE [s EXCEPT !.param =
            TDivS(TAddcdiv(TAddcdiv(@, s.exp_avg_local, s.denom, FNeg(StepSize(h))),
                           s.exp_avg_diff, s.denom, FNeg(StepSizeDiff(h))),
                  One + FMul(h.lr, h.weight_decay))]

SingleUpdate(s, h) ==
    IF h.no_prox
    THEN [s EXCEPT !.param =
            TAddcdiv(TAddcdiv(TMulS(@, One - FMul(h.lr, h.weight_decay)),
                              s.exp_avg_local, s.denom, FNeg(StepSize(h))),
                     s.exp_avg_diff, s.denom, FNeg(StepSizeDiff(h)))]
    ELSE [s EXCEPT !.param =
            TDivS(TAddcdiv(TAddcdiv(@, s.exp_avg_local, s.denom, FNeg(StepSize(h))),
                           s.exp_avg_diff, s.denom, FNeg(StepSizeDiff(h))),
                  One + FMul(h.lr, h.weight_decay))]

SingleNegPreGrad(s, h) == [s EXCEPT !.neg_pre_grad = TAdd(Zeros, s.grad, FNeg(One))]

\* One iteration of the loop of line 212.
SingleTensorOne(s, h) ==
    SingleNegPreGrad(SingleUpdate(SingleDenom(SingleExpAvgSq(SingleBlend(
        SingleExpAvgDiff(SingleCentralize(SingleExpAvg(SingleDiff(SingleClip(s, h), h), h), h), h),
        h), h), h), h), h)

\* The tensors of list position i as one iteration sees them.
SingleView(k, i) ==
    [param |-> k.params[i], grad |-> k.grads[i], exp_avg |-> k.exp_avgs[i],
     exp_avg_local |-> k.exp_avgs[i], exp_avg_sq |-> k.exp_avg_sqs[i],
     exp_avg_diff |-> k.exp_avg_diffs[i], neg_pre_grad |-> k.neg_pre_grads[i],
     denom |-> Zeros]

\* The lists, given what each iteration left.
SingleLists(r) ==
    [params |-> Tup([i \in DOMAIN r |-> r[i].param]),
     grads |-> Tup([i \in DOMAIN r |-> r[i].grad]),
     exp_avgs |-> Tup([i \in DOMAIN r |-> r[i].exp_avg]),
     exp_avg_sqs |-> Tup([i \in DOMAIN r |-> r[i].exp_avg_sq]),
     exp_avg_diffs |-> Tup([i \in DOMAIN r |-> r[i].exp_avg_diff]),
     neg_pre_grads |-> Tup([i \in DOMAIN r |-> r[i].neg_pre_grad]),
     denom |-> Tup([i \in DOMAIN r |-> r[i].denom])]

\* _single_tensor_adan: the lists after the loop.  The iterations touch disjoint
\* tensors, so each is computed from the lists as passed.
single_tensor_adan(k, h) ==
    SingleLists(Tup([i \in DOMAIN k.params |-> SingleTensorOne(SingleView(k, i), h)]))

\* --- _multi_tensor_adan, on the lists.

MultiClip(k, h) == [k EXCEPT !.grads = ForeachMulS(@, h.clip_global_grad_norm)]

MultiDiff(k, h) == [k EXCEPT !.neg_pre_grads = ForeachAdd(@, k.grads, One)]

MultiExpAvg(k, h) ==
    [k EXCEPT !.exp_avgs = ForeachAdd(ForeachMulS(@, h.beta1), k.grads, One - h.beta1)]

\* torch._foreach_add_(exp_avgs, exp_avg_mean, alpha=-1): the means are subtracted
\* in place, from the state tensors themselves.
MultiCentralize(k, h) ==
    IF h.mc
    THEN [k EXCEPT !.exp_avgs =
            ForeachAddScalars(@, Tup([i \in DOMAIN k.params |-> TMean(k.exp_avgs[i])]),
                              FNeg(One))]
    ELSE k

MultiExpAvgDiff(k, h) ==
    [k EXCEPT !.exp_avg_diffs = ForeachAdd(ForeachMulS(@, h.beta2), k.neg_pre_grads, One - h.beta2)]

MultiBlend(k, h) == [k EXCEPT !.neg_pre_grads = ForeachAdd(ForeachMulS(@, h.beta2), k.grads, One)]

MultiExpAvgSq(k, h) ==
    [k EXCEPT !.exp_avg_sqs =
        ForeachAddcmul(ForeachMulS(@, h.beta3), k.neg_pre_grads, k.neg_pre_grads, One - h.beta3)]

MultiDenom(k, h) ==
    [k EXCEPT !.denom =
        ForeachAddS(ForeachDivS(ForeachSqrt(k.exp_avg_sqs), h.bias_correction3_sqrt), h.eps)]

MultiUpdate(k, h) ==
    IF h.no_prox
    THEN [k EXCEPT !.params =
            ForeachAddcdiv(ForeachAddcdiv(ForeachMulS(@, One - FMul(h.lr, h.weight_decay)),
                                          k.exp_avgs, k.denom, FNeg(StepSize(h))),
                           k.exp_avg_diffs, k.denom, FNeg(StepSizeDiff(h)))]
    ELSE [k EXCEPT !.params =
            ForeachDivS(ForeachAddcdiv(ForeachAddcdiv(@, k.exp_avgs, k.denom, FNeg(StepSize(h))),
                                       k.exp_avg_diffs, k.denom, FNeg(StepSizeDiff(h))),
                        One + FMul(h.lr, h.weight_decay))]

MultiNegPreGrad(k, h) ==
    [k EXCEPT !.neg_pre_grads = ForeachAdd(ForeachZero(@), k.grads, FNeg(One))]

\* _multi_tensor_adan: the lists after the fused operations.
multi_tensor_adan(k, h) ==
    IF Len(k.params) = 0 THEN k
    ELSE MultiNegPreGrad(MultiUpdate(MultiDenom(MultiExpAvgSq(MultiBlend(
            MultiExpAvgDiff(MultiCentralize(MultiExpAvg(MultiDiff(MultiClip(k, h), h), h), h), h),
            h), h), h), h), h)

\* --------------------------------------------------------------- optimizer

\* The parameters the harness hands to the constructor, in two groups; the last
\* one is frozen (requires_grad is False), so the harness never writes its gradient.
Params == 1..4
GroupParams == <<(<<1, 2>>), (<<3, 4>>)>>
RequiresGrad(p) == p # 4
Trainable == {p \in Params : RequiresGrad(p)}
ParamInit(p) == Tup([i \in Idx |-> Frac(p + 2 * i - 3, 2)])

Range(s) == {s[i] : i \in DOMAIN s}

\* self.state[p] of a parameter that has no entry
EmptyState == [key \in {} |-> Zeros]
MomentKeys == {"exp_avg", "exp_avg_sq", "exp_avg_diff"}
StateKeys == MomentKeys \cup {"neg_pre_grad"}

\* x >= y and x < y on floats: False when either is NaN
FGe(x, y) == x # NaN /\ y # NaN /\ x >= y
FLt(x, y) == x # NaN /\ y # NaN /\ x < y

\* The range checks with the upper bound of a beta included: 1.0 passes.
MutInitError(a) ==
    IF ~ FGe(a.max_grad_norm, 0) THEN "Invalid Max grad norm"
    ELSE IF ~ FGe(a.lr, 0) THEN "Invalid learning rate"
    ELSE IF ~ FGe(a.eps, 0) THEN "Invalid epsilon value"
    ELSE IF ~ (FGe(a.betas[1], 0) /\ FGe(One, a.betas[1])) THEN "Invalid beta parameter at index 0"
    ELSE IF ~ (FGe(a.betas[2], 0) /\ FGe(One, a.betas[2])) THEN "Invalid beta parameter at index 1"
    ELSE IF ~ (FGe(a.betas[3], 0) /\ FGe(One, a.betas[3])) THEN "Invalid beta parameter at index 2"
    ELSE ""

\* The range checks of __init__, in their order: the message of the ValueError
\* raised, or "" when none is.
InitError(a) ==
    IF ~ FGe(a.max_grad_norm, 0) THEN "Invalid Max grad norm"
    ELSE IF ~ FGe(a.lr, 0) THEN "Invalid learning rate"
    ELSE IF ~ FGe(a.eps, 0) THEN "Invalid epsilon value"
    ELSE IF ~ (FGe(a.betas[1], 0) /\ FLt(a.betas[1], One)) THEN "Invalid beta parameter at index 0"
    ELSE IF ~ (FGe(a.betas[2], 0) /\ FLt(a.betas[2], One)) THEN "Invalid beta parameter at index 1"
    ELSE IF ~ (FGe(a.betas[3], 0) /\ FLt(a.betas[3], One)) THEN "Invalid beta parameter at index 2"
    ELSE ""

\* defaults = dict(...): the arguments as given
Defaults(a) ==
    [lr |-> a.lr, betas |-> a.betas, eps |-> a.eps, weight_decay |-> a.weight_decay,
     max_grad_norm |-> a.max_grad_norm, no_prox |-> a.no_prox, mc |-> a.mc,
     foreach |-> a.foreach]

\* One param group after super().__init__: the defaults, the group's own eps when
\* it gives one, and no "step" key yet.  step = 0 stands for the missing key too:
\* step() and restart_opt() treat a group without the key as one at step 0.
NewGroup(a, gi) ==
    Defaults(a) @@ [params |-> GroupParams[gi], step |-> 0]

\* The optimizer a successful __init__ leaves.  p and grad are the parameters'
\* data and .grad, which the optimizer reads and writes in place.
NewOptimizer(a, eps2) ==
    [defaults |-> Defaults(a),
     param_groups |-> <<NewGroup(a, 1), [NewGroup(a, 2) EXCEPT !.eps = eps2]>>,
     state |-> Tup([p \in Params |-> EmptyState]),
     p |-> Tup([p \in Params |-> ParamInit(p)]),
     grad |-> Tup([p \in Params |-> None])]

\* No optimizer object: before construction, or after a constructor that raised.
NoOpt == [defaults |-> <<>>, param_groups |-> <<>>, state |-> <<>>, p |-> <<>>, grad |-> <<>>]

\* -------------------------------------------------------------------- step

\* The norm taken over the first group's gradients only.
MutClipGlobalGradNorm(o) ==
    IF o.defaults.max_grad_norm > 0
    THEN LET all == Tup([p \in Params |->
                           IF o.grad[p] # None /\ p \in Range(o.param_groups[1].params)
                           THEN TSumSq(o.grad[p]) ELSE 0])
             global_grad_norm == FSqrt(SumSeq(all))
             group == o.param_groups[Len(o.param_groups)]
         IN FMin(FDiv(o.defaults.max_grad_norm, FAdd(global_grad_norm, group.eps)), One)
    ELSE One

\* Lines 99-116: the clip factor of one step() call.  `group` in line 113 is the
\* variable the loop of line 104 leaves behind: the last param group.
ClipGlobalGradNorm(o) ==
    IF o.defaults.max_grad_norm > 0
    THEN LET all == Tup([p \in Params |-> IF o.grad[p] # None THEN TSumSq(o.grad[p]) ELSE 0])
             global_grad_norm == FSqrt(SumSeq(all))
             group == o.param_groups[Len(o.param_groups)]
         IN FMin(FDiv(o.defaults.max_grad_norm, FAdd(global_grad_norm, group.eps)), One)
    ELSE One

\* Lines 146-149: lazy creation of the three moments.
InitState(state) ==
    IF DOMAIN state = {}
    THEN [exp_avg |-> Zeros, exp_avg_sq |-> Zeros, exp_avg_diff |-> Zeros]
    ELSE state

\* neg_pre_grad seeded with the gradient as it is, not the clipped one.
MutSeedNegPreGrad(state, grad, step, clip) ==
    IF "neg_pre_grad" \notin DOMAIN state \/ step = 1
    THEN [exp_avg |-> state.exp_avg, exp_avg_sq |-> state.exp_avg_sq,
          exp_avg_diff |-> state.exp_avg_diff, neg_pre_grad |-> TMulS(grad, FNeg(One))]
    ELSE state

\* Lines 151-152: neg_pre_grad is seeded when missing or on the group's step 1.
SeedNegPreGrad(state, grad, step, clip) ==
    IF "neg_pre_grad" \notin DOMAIN state \/ step = 1
    THEN [exp_avg |-> state.exp_avg, exp_avg_sq |-> state.exp_avg_sq,
          exp_avg_diff |-> state.exp_avg_diff, neg_pre_grad |-> TMulS(grad, FNeg(clip))]
    ELSE state

\* State created before the gradient is looked at.
MutStateForKernel(o, p, step, clip) ==
    IF o.grad[p] = None THEN InitState(o.state[p])
    ELSE SeedNegPreGrad(InitState(o.state[p]), o.grad[p], step, clip)

\* Lines 139-152 for parameter p: skipped without a gradient.
StateForKernel(o, p, step, clip) ==
    IF o.grad[p] = None THEN o.state[p]
    ELSE SeedNegPreGrad(InitState(o.state[p]), o.grad[p], step, clip)

\* The counter moved only for a group that has a gradient to apply.
MutNextStep(o, gi) ==
    IF \A p \in Range(o.param_groups[gi].params) : o.grad[p] = None
    THEN o.param_groups[gi].step
    ELSE o.param_groups[gi].step + 1

\* Lines 130-133: the group's counter for this call.
NextStep(o, gi) == o.param_groups[gi].step + 1

\* Lines 126-137 and 162-181: the scalars handed to the kernel.
KernelScalars(group, clip) ==
    [beta1 |-> group.betas[1], beta2 |-> group.betas[2], beta3 |-> group.betas[3],
     bias_correction1 |-> One - FPow(group.betas[1], group.step),
     bias_correction2 |-> One - FPow(group.betas[2], group.step),
     bias_correction3_sqrt |-> FSqrt(One - FPow(group.betas[3], group.step)),
     lr |-> group.lr, weight_decay |-> group.weight_decay, eps |-> group.eps,
     no_prox |-> group.no_prox, mc |-> group.mc, clip_global_grad_norm |-> clip]

\* Lines 183-186
Kernel(group, k, h) ==
    IF group.foreach THEN multi_tensor_adan(k, h) ELSE single_tensor_adan(k, h)

\* Lines 139-143: the group's parameters that carry a gradient, in order.
ParamsWithGrad(o, gi) ==
    SelectSeq(o.param_groups[gi].params, LAMBDA p : o.grad[p] # None)

\* Lines 130-157 for group gi: the counter moves, then the loop over the group's
\* parameters creates and seeds state.
Prepare(o, gi, clip) ==
    [o EXCEPT !.param_groups[gi].step = NextStep(o, gi),
              !.state = Tup([p \in Params |->
                               IF p \in Range(o.param_groups[gi].params)
                               THEN StateForKernel(o, p, NextStep(o, gi), clip)
                               ELSE o.state[p]])]

\* Lines 142-157: the lists handed to the kernel.
KernelLists(o, pw) ==
    [params |-> Tup([i \in DOMAIN pw |-> o.p[pw[i]]]),
     grads |-> Tup([i \in DOMAIN pw |-> o.grad[pw[i]]]),
     exp_avgs |-> Tup([i \in DOMAIN pw |-> o.state[pw[i]].exp_avg]),
     exp_avg_sqs |-> Tup([i \in DOMAIN pw |-> o.state[pw[i]].exp_avg_sq]),
     exp_avg_diffs |-> Tup([i \in DOMAIN pw |-> o.state[pw[i]].exp_avg_diff]),
     neg_pre_grads |-> Tup([i \in DOMAIN pw |-> o.state[pw[i]].neg_pre_grad]),
     denom |-> Tup([i \in DOMAIN pw |-> Zeros])]

\* The position of p in the list pw, 0 when it is not in it.
Pos(pw, p) == IF p \in Range(pw) THEN CHOOSE i \in DOMAIN pw : pw[i] = p ELSE 0

\* The kernel worked in place on the tensors of the parameters pw: what it left
\* in the lists r is what the optimizer and the parameters now hold.
WriteBack(acc, pw, r) ==
    [acc EXCEPT
       !.o.p = Tup([p \in Params |-> IF Pos(pw, p) > 0 THEN r.params[Pos(pw, p)] ELSE @[p]]),
       !.o.grad = Tup([p \in Params |-> IF Pos(pw, p) > 0 THEN r.grads[Pos(pw, p)] ELSE @[p]]),
       !.o.state = Tup([p \in Params |->
                          IF Pos(pw, p) > 0
                          THEN [exp_avg |-> r.exp_avgs[Pos(pw, p)],
                                exp_avg_sq |-> r.exp_avg_sqs[Pos(pw, p)],
                                exp_avg_diff |-> r.exp_avg_diffs[Pos(pw, p)],
                                neg_pre_grad |-> r.neg_pre_grads[Pos(pw, p)]]
                          ELSE @[p]]),
       !.denom = Tup([p \in Params |-> IF Pos(pw, p) > 0 THEN r.denom[Pos(pw, p)] ELSE @[p]])]

\* Lines 159-186: nothing more for a group without gradients, else the kernel.
RunKernel(acc, gi) ==
    IF ParamsWithGrad(acc.o, gi) = <<>> THEN acc
    ELSE WriteBack(acc, ParamsWithGrad(acc.o, gi),
                   Kernel(acc.o.param_groups[gi],
                          KernelLists(acc.o, ParamsWithGrad(acc.o, gi)),
                          KernelScalars(acc.o.param_groups[gi], acc.clip)))

\* Lines 118-186 for group gi.  acc.o is the optimizer so far, acc.clip the clip
\* factor, acc.denom the denom tensor the kernel computed for each parameter it
\* updated in this call.
StepGroup(acc, gi) == RunKernel([acc EXCEPT !.o = Prepare(@, gi, acc.clip)], gi)

RECURSIVE StepGroups(_, _)
\* The loop of line 118 from group gi on.
StepGroups(acc, gi) ==
    IF gi > Len(acc.o.param_groups) THEN acc
    ELSE StepGroups(StepGroup(acc, gi), gi + 1)

\* step() with no closure: the optimizer after the call (o), with the clip factor
\* and the kernels' denom tensors.
step(o) ==
    StepGroups([o |-> o, clip |-> ClipGlobalGradNorm(o),
                denom |-> Tup([p \in Params |-> None])], 1)

\* ------------------------------------------------------------- restart_opt

\* A reset that leaves exp_avg_sq as it is.
MutRestartState(state) ==
    [exp_avg |-> Zeros,
     exp_avg_sq |-> IF "exp_avg_sq" \in DOMAIN state THEN state.exp_avg_sq ELSE Zeros,
     exp_avg_diff |-> Zeros]
    @@ [key \in DOMAIN state \ MomentKeys |-> state[key]]

\* Lines 80-88: the three moments are replaced by zeros; the other entries stay.
RestartState(state) ==
    [exp_avg |-> Zeros, exp_avg_sq |-> Zeros, exp_avg_diff |-> Zeros]
    @@ [key \in DOMAIN state \ MomentKeys |-> state[key]]

\* Lines 76-88: every group's counter to 0, the moments of every parameter that
\* requires grad to zeros (self.state[p] creates the entry when there is none).
restart_opt(o) ==
    [o EXCEPT !.param_groups = [gi \in DOMAIN @ |-> [@[gi] EXCEPT !.step = 0]],
              !.state = Tup([p \in Params |-> IF RequiresGrad(p) THEN RestartState(@[p]) ELSE @[p]])]

\* ----------------------------------------------------------------- restore

\* The names bound at module level in adan.py when a method runs.
ModuleNames == {"math", "torch", "Tensor", "Optimizer", "adan",
                "_single_tensor_adan", "_multi_tensor_adan"}

\* Optimizer.state_dict(): the per-parameter state and the groups (each with its
\* hyperparameters and its "step" key).
state_dict(o) == [state |-> o.state, param_groups |-> o.param_groups]

\* __setstate__(state): super(Adan, self) looks the name Adan up first; only when
\* that succeeds does the base class install the state, after which every group
\* gets no_prox by setdefault (a no-op here: every group has the key).
setstate(o, sd) ==
    IF "Adan" \in ModuleNames
    THEN [raised |-> "", o |-> [o EXCEPT !.state = sd.state, !.param_groups = sd.param_groups]]
    ELSE [raised |-> "NameError", o |-> o]

\* Optimizer.load_state_dict(sd) ends by calling self.__setstate__.
load_state_dict(o, sd) == setstate(o, sd)

\* ----------------------------------------------------------- state machine

VARIABLES
    args,    \* the arguments of the constructor call
    opt,     \* the optimizer (NoOpt when there is none)
    opt2,    \* a second instance: the restored copy, or the other kernel's twin
    phase,   \* "new", "idle" (gradients consumed), "ready" (gradients written), "raised"
    calls,   \* step() calls so far in the run (a warm restart begins a new run)
    err,     \* the exception the last operation raised, "" when none
    obs      \* locals of the last step() call on opt: clip factor and denom tensors

vars == <<args, opt, opt2, phase, calls, err, obs>>

NoObs == [clip |-> One, denom |-> Tup([p \in Params |-> None])]

BaseArgs ==
    [lr |-> Frac(1, 2), betas |-> <<Frac(1, 2), Frac(1, 4), Frac(3, 4)>>, eps |-> Frac(1, 8),
     weight_decay |-> Frac(1, 2), max_grad_norm |-> 0, no_prox |-> TRUE, mc |-> TRUE,
     foreach |-> TRUE]

\* Arguments inside the ranges, the lower bounds included.
GoodArgs ==
    {[BaseArgs EXCEPT !.eps = e, !.max_grad_norm = m, !.no_prox = np, !.mc = c, !.foreach = f] :
        e \in {0, Frac(1, 8)}, m \in {0, 2 * One}, np \in BOOLEAN, c \in BOOLEAN, f \in BOOLEAN}
    \cup {[BaseArgs EXCEPT !.lr = 0, !.betas = <<0, 0, 0>>]}

\* Arguments with one value outside its range.
BadArgs ==
    {[BaseArgs EXCEPT !.lr = x] : x \in {Frac(0 - 1, 2), NaN}}
    \cup {[BaseArgs EXCEPT !.eps = x] : x \in {Frac(0 - 1, 8), NaN}}
    \cup {[BaseArgs EXCEPT !.max_grad_norm = x] : x \in {0 - One, NaN}}
    \cup {[BaseArgs EXCEPT !.betas[i] = x] : i \in 1..3, x \in {Frac(0 - 1, 4), One, Frac(3, 2), NaN}}

CtorArgs == GoodArgs \cup BadArgs

\* eps of the second param group: the default, or the group's own.
GroupEps(a) == {a.eps, Frac(1, 4)}

\* The gradient of parameter p in the backward pass number t, in the set number s:
\* entries in -2.0 .. 2.0 that change from pass to pass, zeros among them.
GradSample(s, p, t) == Tup([i \in Idx |-> One * (((s + 2 * p + 3 * i + t + 1) % 5) - 2)])

Init ==
    /\ args = BaseArgs
    /\ opt = NoOpt
    /\ opt2 = NoOpt
    /\ phase = "new"
    /\ calls = 0
    /\ err = ""
    /\ obs = NoObs

\* adan(params, **a): raises ValueError and leaves no object, or builds the optimizer.
Construct ==
    /\ phase = "new"
    /\ \E a \in CtorArgs : \E eps2 \in GroupEps(a) :
         /\ args' = a
         /\ IF InitError(a) # ""
            THEN /\ opt' = NoOpt
                 /\ err' = "ValueError"
                 /\ phase' = "raised"
            ELSE /\ opt' = NewOptimizer(a, eps2)
                 /\ err' = ""
                 /\ phase' = "idle"
    /\ UNCHANGED <<opt2, calls, obs>>

\* The harness's backward pass: fresh gradients for the parameters in `with`, none
\* for the others, the same for both instances.
WriteGrads(o, with, s, t) ==
    [o EXCEPT !.grad = Tup([p \in Params |-> IF p \in with THEN GradSample(s, p, t) ELSE None])]

Backward ==
    /\ phase = "idle"
    /\ calls < MaxCalls
    /\ \E with \in SUBSET Trainable : \E s \in 1..NumSamples :
         /\ opt' = WriteGrads(opt, with, s, calls)
         /\ opt2' = IF opt2 = NoOpt THEN NoOpt ELSE WriteGrads(opt2, with, s, calls)
    /\ phase' = "ready"
    /\ UNCHANGED <<args, calls, err, obs>>

\* optimizer.step() on every instance.
Step ==
    /\ phase = "ready"
    /\ \E r \in {step(opt)} :
         /\ opt' = r.o
         /\ obs' = [clip |-> r.clip, denom |-> r.denom]
    /\ opt2' = IF opt2 = NoOpt THEN NoOpt ELSE step(opt2).o
    /\ calls' = calls + 1
    /\ phase' = "idle"
    /\ UNCHANGED <<args, err>>

\* optimizer.restart_opt() on every instance.
RestartOpt ==
    /\ phase = "idle"
    /\ opt' = restart_opt(opt)
    /\ opt2' = IF opt2 = NoOpt THEN NoOpt ELSE restart_opt(opt2)
    /\ UNCHANGED <<args, phase, calls, err, obs>>

\* Checkpoint restore: a fresh instance over the same parameters, then
\* load_state_dict(opt.state_dict()).  An exception ends the run.
Restore ==
    /\ phase = "idle"
    /\ opt2 = NoOpt
    /\ \E r \in {load_state_dict([NewOptimizer(args, opt.param_groups[2].eps) EXCEPT !.p = opt.p],
                                  state_dict(opt))} :
         /\ opt2' = r.o
         /\ err' = r.raised
         /\ phase' = IF r.raised = "" THEN "idle" ELSE "raised"
    /\ UNCHANGED <<args, opt, calls, obs>>

Next == Construct \/ Backward \/ Step \/ RestartOpt \/ Restore

Spec == Init /\ [][Next]_vars

\* Two instances built from the same arguments and parameters, one per kernel.
InitKernels ==
    /\ args \in GoodArgs
    /\ opt = NewOptimizer([args EXCEPT !.foreach = FALSE], args.eps)
    /\ opt2 = NewOptimizer([args EXCEPT !.foreach = TRUE], args.eps)
    /\ phase = "idle"
    /\ calls = 0
    /\ err = ""
    /\ obs = NoObs

NextKernels == Backward \/ Step

SpecKernels == InitKernels /\ [][NextKernels]_vars

\* A fresh optimizer over the parameters as o holds them now, built from the same
\* arguments and groups.
FreshTwin(a, o) == [NewOptimizer(a, o.param_groups[2].eps) EXCEPT !.p = o.p]

\* A training history has been run from a fresh optimizer.
InitRestart ==
    /\ args \in GoodArgs
    /\ opt = NewOptimizer(args, args.eps)
    /\ opt2 = NoOpt
    /\ phase = "idle"
    /\ calls = 0
    /\ err = ""
    /\ obs = NoObs

\* Warm restart: optimizer.restart_opt() after at least one step, next to a fresh
\* optimizer built over the same current parameter values.  Both then get the
\* same gradients; the count of step() calls begins again for the new run.
WarmRestart ==
    /\ phase = "idle"
    /\ opt2 = NoOpt
    /\ calls >= 1
    /\ opt' = restart_opt(opt)
    /\ opt2' = FreshTwin(args, opt)
    /\ calls' = 0
    /\ UNCHANGED <<args, phase, err, obs>>

NextRestart == Backward \/ Step \/ WarmRestart

SpecRestart == InitRestart /\ [][NextRestart]_vars

\* ------------------------------------------------------------------ claims

\* Equality within floating-point tolerance.
Tol == Scale \div 128
Close(x, y) == x = y \/ (Finite(x) /\ Finite(y) /\ Abs(x - y) <= Tol)
TensorsClose(t, u) == DOMAIN t = DOMAIN u /\ \A i \in DOMAIN t : Close(t[i], u[i])
StatesClose(st, su) ==
    DOMAIN st = DOMAIN su /\ \A key \in DOMAIN st : TensorsClose(st[key], su[key])

\* A step() call, a restart_opt() call and a constructor call, as transitions.
IsStep == calls' = calls + 1
IsRestart == phase = "idle" /\ phase' = "idle" /\ calls' = calls /\ opt2' = opt2
IsConstruct == phase = "new" /\ phase' # "new"

GroupOf(p) == CHOOSE gi \in DOMAIN GroupParams : p \in Range(GroupParams[gi])
GroupHasNoGrad(o, gi) == \A p \in Range(o.param_groups[gi].params) : o.grad[p] = None
StepsDone == phase = "idle" /\ calls >= 1

\* C1 (as claimed): the scalar-kernel instance and the batched-kernel instance,
\* built alike and fed the same gradients, hold equal parameters and equal state
\* tensors (exp_avg, exp_avg_sq, exp_avg_diff, neg_pre_grad) after every step,
\* equal being within floating-point tolerance.
C1_KernelEquivalence ==
    /\ \A p \in Params : TensorsClose(opt.p[p], opt2.p[p])
    /\ \A p \in Params : StatesClose(opt.state[p], opt2.state[p])

\* C2 (as claimed): once the state has been restored into a fresh instance, no
\* error was raised and the fresh instance holds the state, the step counters and
\* the parameters of the original, and keeps doing so through the steps that follow.
C2_RoundTrip ==
    opt2 # NoOpt =>
        /\ err = ""
        /\ opt2.state = opt.state
        /\ opt2.param_groups = opt.param_groups
        /\ opt2.p = opt.p

\* C3 (as claimed): a step() leaves a group none of whose parameters carries a
\* gradient entirely unchanged: parameters, state tensors and step counter.
C3_NoGradGroupUntouched ==
    [][IsStep =>
        \A gi \in DOMAIN opt.param_groups :
            GroupHasNoGrad(opt, gi) =>
                /\ opt'.param_groups[gi] = opt.param_groups[gi]
                /\ \A p \in Range(opt.param_groups[gi].params) :
                       opt'.p[p] = opt.p[p] /\ opt'.state[p] = opt.state[p]
                /\ err' = ""]_vars

\* C3 (amended): a step() raises no error and leaves the parameters, the state
\* tensors and the hyperparameters of a group without gradients unchanged, but it
\* moves the group's step counter on by one.
C3_NoGradGroupOnlyCounts ==
    [][IsStep =>
        \A gi \in DOMAIN opt.param_groups :
            GroupHasNoGrad(opt, gi) =>
                /\ opt'.param_groups[gi] = [opt.param_groups[gi] EXCEPT !.step = @ + 1]
                /\ \A p \in Range(opt.param_groups[gi].params) :
                       /\ opt'.p[p] = opt.p[p]
                       /\ opt'.state[p] = opt.state[p]
                       /\ opt'.grad[p] = None
                /\ err' = ""]_vars

\* A step has run in which one group had no gradient and the other had one.
C3_Witness ==
    /\ StepsDone
    /\ GroupHasNoGrad(opt, 1)
    /\ ~ GroupHasNoGrad(opt, 2)
    /\ opt.param_groups[1].step = 2

\* C4: a step() leaves a parameter without a gradient as it was: its value, its
\* state tensors, and no state entry where there was none, whatever the other
\* parameters of its group and of the other groups do and whichever kernel runs.
C4_SkipOnMissingGradient ==
    [][IsStep =>
        \A p \in Params :
            opt.grad[p] = None =>
                /\ opt'.p[p] = opt.p[p]
                /\ opt'.state[p] = opt.state[p]
                /\ opt'.grad[p] = None]_vars

\* A step has run in which parameter 1 had no gradient and no state, while its
\* group mate and a parameter of the other group were updated.
C4_Witness ==
    /\ StepsDone
    /\ opt.grad[1] = None /\ opt.state[1] = EmptyState
    /\ opt.grad[2] # None /\ opt.state[2] # EmptyState
    /\ opt.grad[3] # None /\ opt.state[3] # EmptyState

RECURSIVE SumOver(_, _)
SumOver(S, f) ==
    IF S = {} THEN 0 ELSE LET x == CHOOSE y \in S : TRUE IN f[x] + SumOver(S \ {x}, f)

\* sqrt of the sum of the squared gradient entries of every parameter that has a
\* gradient, in all groups.
GlobalNorm(o) ==
    FSqrt(SumOver({p \in Params : o.grad[p] # None},
                  [p \in Params |-> SumOver(Idx, [i \in Idx |-> FMul(o.grad[p][i], o.grad[p][i])])]))

\* min(max_grad_norm / (global_norm + eps), 1.0), eps being the last group's; 1.0
\* when max_grad_norm is 0.  A zero divisor gives +inf, which the min turns to 1.0.
ClipFactor(o) ==
    IF o.defaults.max_grad_norm = 0 THEN One
    ELSE IF GlobalNorm(o) + o.param_groups[2].eps = 0 THEN One
    ELSE IF FDiv(o.defaults.max_grad_norm, GlobalNorm(o) + o.param_groups[2].eps) < One
         THEN FDiv(o.defaults.max_grad_norm, GlobalNorm(o) + o.param_groups[2].eps)
         ELSE One

\* C5: the clip factor of a step() is the one number ClipFactor gives for the
\* gradients as they are before the call, over all groups; every gradient of every
\* group is multiplied by it, and it is the multiplied gradient that the moment
\* updates use (seen in neg_pre_grad, and in exp_avg where it is not centralized).
C5_GlobalClipping ==
    [][IsStep =>
        /\ obs'.clip = ClipFactor(opt)
        /\ \A p \in Params :
             opt.grad[p] # None =>
                /\ opt'.grad[p] = TMulS(opt.grad[p], obs'.clip)
                /\ opt'.state[p].neg_pre_grad = TMulS(TMulS(opt.grad[p], obs'.clip), 0 - One)
                /\ ~ args.mc =>
                     opt'.state[p].exp_avg =
                        TAdd(TMulS(InitState(opt.state[p]).exp_avg, args.betas[1]),
                             TMulS(opt.grad[p], obs'.clip), One - args.betas[1])]_vars

\* A step has run that clipped (factor below 1.0) gradients of both groups.
C5_Witness ==
    /\ StepsDone
    /\ args.max_grad_norm > 0
    /\ obs.clip < One
    /\ opt.grad[2] # None /\ opt.grad[3] # None
    /\ opt.param_groups[1].eps # opt.param_groups[2].eps


\* The ranges the constructor's contract names: every beta in [0, 1), and lr, eps
\* and max_grad_norm not negative (NaN is in no range).
InRange01(x) == x # NaN /\ 0 <= x /\ x < One
NonNegative(x) == x # NaN /\ 0 <= x
ArgsInRange(a) ==
    /\ \A i \in 1..3 : InRange01(a.betas[i])
    /\ NonNegative(a.lr) /\ NonNegative(a.eps) /\ NonNegative(a.max_grad_norm)

\* C6: a constructor call with a beta outside [0, 1) or a negative lr, eps or
\* max_grad_norm raises the invalid-value error and leaves no optimizer (no groups,
\* no state); a call with all of them in range raises nothing and leaves an
\* optimizer whose defaults and groups hold the values exactly as given.
C6_RangeValidation ==
    [][IsConstruct =>
        IF ArgsInRange(args')
        THEN /\ err' = ""
             /\ opt' # NoOpt
             /\ \A key \in {"lr", "betas", "eps", "max_grad_norm"} :
                    /\ opt'.defaults[key] = args'[key]
                    /\ opt'.param_groups[1][key] = args'[key]
             /\ \A key \in {"lr", "betas", "max_grad_norm"} :
                    opt'.param_groups[2][key] = args'[key]
             /\ opt'.param_groups[2].eps \in {args'.eps, Frac(1, 4)}
        ELSE /\ err' = "ValueError"
             /\ opt' = NoOpt
             /\ opt'.param_groups = <<>> /\ opt'.state = <<>>]_vars

\* A constructor call with beta3 = 1.0, the excluded end of the range, has raised.
C6_Witness ==
    /\ phase = "raised"
    /\ err = "ValueError"
    /\ args.betas[3] = One
    /\ ArgsInRange([args EXCEPT !.betas[3] = 0])
    /\ opt = NoOpt

\* C7: restart_opt() leaves every group's step counter at 0 and exp_avg,
\* exp_avg_sq and exp_avg_diff all-zero for every parameter that requires grad,
\* and a second restart_opt() right after it changes nothing.
C7_Reset ==
    [][IsRestart =>
        /\ \A gi \in DOMAIN opt'.param_groups : opt'.param_groups[gi].step = 0
        /\ \A p \in Params :
             RequiresGrad(p) =>
                \A key \in MomentKeys : opt'.state[p][key] = Zeros
        /\ restart_opt(opt') = opt']_vars

\* restart_opt() has run after two steps that had filled the moments.
C7_Witness ==
    /\ phase = "idle"
    /\ calls = 2
    /\ \A gi \in DOMAIN opt.param_groups : opt.param_groups[gi].step = 0
    /\ "neg_pre_grad" \in DOMAIN opt.state[2]
    /\ opt.state[2].neg_pre_grad # Zeros
    /\ opt.state[2].exp_avg_sq = Zeros

\* C8 (as claimed): every element of the denom of every parameter update is
\* strictly positive, whatever accepted eps (0 included) the group has.
C8_DenomPositive ==
    \A p \in Params :
        obs.denom[p] # None => \A i \in Idx : obs.denom[p][i] > 0

\* C8 (amended): every element of denom is a finite number not below the group's
\* eps, so strictly positive when eps > 0; it is 0 exactly when eps is 0 and the
\* element of exp_avg_sq is 0.
C8_DenomFloor ==
    [][IsStep =>
        \A p \in Params :
            obs'.denom[p] # None =>
                \A i \in Idx :
                    /\ Finite(obs'.denom[p][i])
                    /\ obs'.denom[p][i] >= opt'.param_groups[GroupOf(p)].eps
                    /\ opt'.param_groups[GroupOf(p)].eps > 0 => obs'.denom[p][i] > 0
                    /\ obs'.denom[p][i] = 0 <=>
                          /\ opt'.param_groups[GroupOf(p)].eps = 0
                          /\ opt'.state[p].exp_avg_sq[i] = 0]_vars

\* A step has run in which an element of denom sat on the floor: exp_avg_sq was 0
\* there and denom was the group's eps, above 0.
C8_Witness ==
    /\ StepsDone
    /\ \E p \in Params :
         /\ obs.denom[p] # None
         /\ opt.param_groups[GroupOf(p)].eps > 0
         /\ \E i \in Idx : obs.denom[p][i] = opt.param_groups[GroupOf(p)].eps

\* The update equations for one element, in the order the two modes give: x the
\* parameter before, m and diff the moment terms, d the denominator.
RefSub(x, size, num, d) == FSub(x, FDiv(FMul(size, num), d))
RefUpdate(x, m, diff, d, g) ==
    LET step_size == FDiv(g.lr, FSub(One, FPow(g.betas[1], g.step)))
        step_size_diff == FDiv(FMul(g.lr, g.betas[2]), FSub(One, FPow(g.betas[2], g.step)))
    IN IF g.no_prox
       THEN RefSub(RefSub(FMul(x, FSub(One, FMul(g.lr, g.weight_decay))), step_size, m, d),
                   step_size_diff, diff, d)
       ELSE FDiv(RefSub(RefSub(x, step_size, m, d), step_size_diff, diff, d),
                 FAdd(One, FMul(g.lr, g.weight_decay)))

\* The first-moment term of the update: exp_avg, less its mean when mc is on.
RefMoment(t, g) == IF g.mc THEN [i \in Idx |-> FSub(t[i], TMean(t))] ELSE t

\* C9: after every step(), under either kernel, every parameter that had a
\* gradient holds the value the update equations give from its value before the
\* step, the moment terms and denom of this step and the group's step sizes: decay
\* by multiplication first when no_prox, by division last otherwise.
C9_WeightDecayOrdering ==
    [][IsStep =>
        \A p \in Params :
            opt.grad[p] # None =>
                \A i \in Idx :
                    opt'.p[p][i] =
                        RefUpdate(opt.p[p][i],
                                  RefMoment(opt'.state[p].exp_avg, opt'.param_groups[GroupOf(p)])[i],
                                  opt'.state[p].exp_avg_diff[i],
                                  obs'.denom[p][i],
                                  opt'.param_groups[GroupOf(p)])]_vars

\* Two steps have run with no_prox off and a weight decay; the second moved
\* parameter 2 with a non-zero gradient-difference term.
C9_Witness ==
    /\ StepsDone
    /\ calls = 2
    /\ ~ args.no_prox
    /\ args.weight_decay > 0 /\ args.lr > 0
    /\ opt.param_groups[1].step = 2
    /\ obs.denom[2] # None
    /\ opt.state[2].exp_avg_diff # Zeros
    /\ opt.p[2] # ParamInit(2)

\* The optimizer as the constructor left it: no state, no step taken.
Fresh ==
    /\ phase = "ready"
    /\ calls = 0
    /\ \A p \in Params : opt.state[p] = EmptyState
    /\ \A gi \in DOMAIN opt.param_groups : opt.param_groups[gi].step = 0

\* C10: after the first step() of a freshly constructed optimizer, every
\* parameter that had a gradient g has, c being the clip factor of the step,
\* exp_avg_diff all-zero, exp_avg_sq = (1 - beta3) * (c*g)^2 element by element
\* and neg_pre_grad = -(c*g).
C10_FirstStepSeeding ==
    [][(Fresh /\ IsStep) =>
        \A p \in Params :
            opt.grad[p] # None =>
                \A i \in Idx :
                    /\ opt'.state[p].exp_avg_diff[i] = 0
                    /\ opt'.state[p].exp_avg_sq[i] =
                          FMul(FMul(FSub(One, args.betas[3]), FMul(opt.grad[p][i], obs'.clip)),
                               FMul(opt.grad[p][i], obs'.clip))
                    /\ opt'.state[p].neg_pre_grad[i] = FNeg(FMul(opt.grad[p][i], obs'.clip))]_vars

\* The first step of a fresh optimizer has run, clipping (factor below 1.0), with
\* parameter 1 left without state and parameter 2 seeded with a non-zero gradient.
C10_Witness ==
    /\ StepsDone
    /\ calls = 1
    /\ obs.clip < One
    /\ opt.state[1] = EmptyState
    /\ \A gi \in DOMAIN opt.param_groups : opt.param_groups[gi].step = 1
    /\ opt.state[2] # EmptyState
    /\ opt.state[2].neg_pre_grad # Zeros
    /\ opt.state[2].exp_avg_diff = Zeros

\* C11 (as claimed): from a restart_opt() on, the restarted optimizer and a fresh
\* one built over the same parameter values, fed the same gradients (present or
\* absent per parameter and step), hold the same parameters and step counters, and
\* the same moment tensors for every parameter the fresh one has updated.
C11_WarmRestartEqualsFresh ==
    opt2 # NoOpt =>
        /\ opt.p = opt2.p
        /\ \A gi \in DOMAIN opt.param_groups :
               opt.param_groups[gi].step = opt2.param_groups[gi].step
        /\ \A p \in Params :
               opt2.state[p] # EmptyState =>
                   \A key \in MomentKeys : opt.state[p][key] = opt2.state[p][key]

====
